---- MODULE Spec2Model ----
(***************************************************************************)
(* Entry reconciliation of the team-chat client: appEntry / loginEntry /   *)
(* fetchAppEntryData / getAvailableTeamIds / switchTeams / handleRoles /   *)
(* prepareModels (src/unnamed/part_000) and fetchRolesIfNeeded             *)
(* (src/app/actions/remote/role.ts).                                       *)
(*                                                                         *)
(* Team ids are 1..NumTeams; NoTeam models the empty id ''.  Every team    *)
(* has one channel, identified by the id of the team it was fetched for.   *)
(* A fetch error is its status code, 0 when the result carries no error;   *)
(* a returned error also names the fetch it came from.                     *)
(***************************************************************************)
EXTENDS Integers, Sequences, FiniteSets, TLC

\* ------------------------------------------------------------------ bounds
NumTeams == 2
MaxPasses == 2
MaxCandidates == 4
MaxRoleList == 3
MaxTeamRows == 1
MaxChannelRows == 2

\* ------------------------------------------------------- program constants
NoTeam == 0
Forbidden == 403

Teams == 1..NumTeams
TeamIds == Teams \cup {NoTeam}
\* error field of a channel fetch: none, forbidden, any other failure
ChannelErrors == {0, Forbidden, 500}
RoleNames == {"admin", "member", "guest"}

VARIABLES
    \* server-side outcomes, fixed for a behaviour ("no server-state change")
    teamData,           \* fetchMyTeams: [error, teams] (teams undefined on error)
    chanStatus,         \* fetchMyChannelsForTeam: error status per team id
    defaultPick,        \* the team selectDefaultTeam returns for the fetched list
    prefState,          \* "fetched" | "cached" (fetch failed, row in db) | "none"
    meOk,               \* fetchMe returned a user
    \* local store
    sysCurrentTeamId, sysCurrentChannelId,
    sysConfig,          \* system values config and license: [config, license]
    dbMyTeams, dbTeams, dbChannels, dbRoles,
    \* appEntry
    pc, passNo, currentTeamId, fetchedData, removeTeams, ptrPending, rolesPending,
    result, preStore, quietStart,
    deferred,           \* deferred enrichment dispatched by the running procedure
    \* switchTeams run on its own
    sw,
    \* fetchRolesIfNeeded run on its own
    rl,
    \* loginEntry
    lg,
    \* handleRoles and the role collection of loginEntry run on their own
    hr

envVars == <<teamData, chanStatus, defaultPick, prefState, meOk>>
storeVars == <<sysCurrentTeamId, sysCurrentChannelId, sysConfig, dbMyTeams, dbTeams, dbChannels, dbRoles>>
appVars == <<pc, passNo, currentTeamId, fetchedData, removeTeams, ptrPending, rolesPending,
             result, preStore, quietStart, deferred>>
vars == <<envVars, storeVars, appVars, sw, rl, lg, hr>>

\* ----------------------------------------------------------------- helpers
RECURSIVE SortedSeq(_)
SortedSeq(S) ==
    IF S = {} THEN <<>>
    ELSE LET m == CHOOSE x \in S : \A y \in S : x <= y
         IN <<m>> \o SortedSeq(S \ {m})

Range(s) == {s[k] : k \in 1..Len(s)}

RECURSIVE Perms(_)
Perms(S) ==
    IF S = {} THEN {<<>>}
    ELSE UNION {{<<x>> \o p : p \in Perms(S \ {x})} : x \in S}

\* every list of distinct ids drawn from S
DistinctSeqs(S) == UNION {Perms(T) : T \in SUBSET S}

\* ------------------------------------------------------ external fetches
NoChData == [defined |-> FALSE, teamId |-> NoTeam, error |-> 0, channels |-> {}]

fetchMyChannelsForTeam(teamId) ==
    [defined |-> TRUE, teamId |-> teamId, error |-> chanStatus[teamId],
     channels |-> IF chanStatus[teamId] = 0 THEN {teamId} ELSE {}]

selectDefaultTeam(teams) == IF teams = {} THEN NoTeam ELSE defaultPick

selectDefaultChannelForTeam(channels) ==
    IF channels = {} THEN NoTeam ELSE CHOOSE c \in channels : \A d \in channels : c <= d

queryMyTeams == SortedSeq(dbMyTeams)

\* ------------------------------------------------------------ switchTeams
SwitchStart(availableTeamIds, removeTeamIds) ==
    [availableTeamIds |-> availableTeamIds, i |-> 1, broke |-> FALSE,
     initialTeamId |-> NoTeam, chData |-> NoChData,
     removeTeamIds |-> removeTeamIds, log |-> <<>>]

SwitchRunning(st) == ~st.broke /\ st.i <= Len(st.availableTeamIds)

IsForbidden(chData) == chData.error = Forbidden

\* SwitchStep without the break: the loop goes on after a team was found
SwitchStep_NoBreak(st) ==
    LET teamId == st.availableTeamIds[st.i]
        chData == fetchMyChannelsForTeam(teamId)
    IN IF IsForbidden(chData)
       THEN [st EXCEPT !.chData = chData, !.log = Append(@, teamId),
                       !.removeTeamIds = Append(@, teamId), !.i = @ + 1]
       ELSE [st EXCEPT !.chData = chData, !.log = Append(@, teamId),
                       !.initialTeamId = teamId, !.i = @ + 1]

\* one iteration of the for loop
SwitchStep(st) ==
    LET teamId == st.availableTeamIds[st.i]
        chData == fetchMyChannelsForTeam(teamId)
    IN IF IsForbidden(chData)
       THEN [st EXCEPT !.chData = chData, !.log = Append(@, teamId),
                       !.removeTeamIds = Append(@, teamId), !.i = @ + 1]
       ELSE [st EXCEPT !.chData = chData, !.log = Append(@, teamId),
                       !.initialTeamId = teamId, !.broke = TRUE]

\* lines 141-145: chData is part of the result only when a fetch was made
SwitchResult(st) ==
    [initialTeamId |-> st.initialTeamId, hasChData |-> st.chData.defined,
     chData |-> st.chData, removeTeamIds |-> st.removeTeamIds, log |-> st.log]

RECURSIVE switchTeams(_)
switchTeams(st) ==
    IF SwitchRunning(st) THEN switchTeams(SwitchStep(st)) ELSE SwitchResult(st)

\* ---------------------------------------------------- getAvailableTeamIds
\* ExcludeTeam without the filter: the excluded team stays a candidate
ExcludeTeam_None(ids, excludeTeamId) == ids

\* line 123
ExcludeTeam(ids, excludeTeamId) == SelectSeq(ids, LAMBDA id : id # excludeTeamId)

getAvailableTeamIds(excludeTeamId) ==
    IF ~teamData.error
    THEN IF prefState = "none"
         THEN [thrown |-> TRUE, ids |-> <<>>]
         ELSE [thrown |-> FALSE,
               ids |-> ExcludeTeam(<<selectDefaultTeam(teamData.teams)>>, excludeTeamId)]
    ELSE [thrown |-> FALSE, ids |-> ExcludeTeam(queryMyTeams, excludeTeamId)]

\* ------------------------------------------------------ fetchAppEntryData
InTeam(teamId) == ~teamData.error /\ teamId \in teamData.teams

NoTeamsLeft == ~teamData.error /\ teamData.teams = {}

\* PriorTeamInvalid without the 403 test
PriorTeamInvalid_InTeamOnly(initialTeamId, chData) == ~InTeam(initialTeamId)

\* line 79
PriorTeamInvalid(initialTeamId, chData) == ~InTeam(initialTeamId) \/ IsForbidden(chData)

\* ZeroTeamsRemoval with the cached teams left out
ZeroTeamsRemoval_Empty == <<>>

\* lines 65-66: every locally cached team is marked for removal
ZeroTeamsRemoval == queryMyTeams

fetchAppEntryData(initialTeamId) ==
    LET chData == fetchMyChannelsForTeam(initialTeamId)
        base == [thrown |-> FALSE, initialTeamId |-> initialTeamId, chData |-> chData,
                 removeTeamIds |-> <<>>, switched |-> FALSE,
                 availableTeamIds |-> <<>>, seed |-> <<>>, log |-> <<initialTeamId>>]
    IN IF NoTeamsLeft
       THEN [base EXCEPT !.initialTeamId = NoTeam, !.removeTeamIds = ZeroTeamsRemoval]
       ELSE IF PriorTeamInvalid(initialTeamId, chData)
       THEN LET seed == <<initialTeamId>>
                avail == getAvailableTeamIds(initialTeamId)
            IN IF avail.thrown
               THEN [base EXCEPT !.thrown = TRUE, !.removeTeamIds = seed, !.seed = seed]
               ELSE LET s == switchTeams(SwitchStart(avail.ids, seed))
                    IN [base EXCEPT !.initialTeamId = s.initialTeamId,
                                    !.chData = IF s.hasChData THEN s.chData ELSE chData,
                                    !.removeTeamIds = s.removeTeamIds,
                                    !.switched = TRUE,
                                    !.availableTeamIds = avail.ids,
                                    !.seed = seed,
                                    !.log = <<initialTeamId>> \o s.log]
       ELSE base

NoFetchedData ==
    [thrown |-> FALSE, initialTeamId |-> NoTeam, chData |-> NoChData,
     removeTeamIds |-> <<>>, switched |-> FALSE,
     availableTeamIds |-> <<>>, seed |-> <<>>, log |-> <<>>]

\* ------------------------------------------------------------------ store
Store ==
    [team |-> sysCurrentTeamId, channel |-> sysCurrentChannelId,
     myTeams |-> dbMyTeams, teams |-> dbTeams, channels |-> dbChannels]

\* an error as an entry procedure returns it: the fetch it came from and its code
NoError == [of |-> "none", code |-> 0]
Err(of, code) == IF code = 0 THEN NoError ELSE [of |-> of, code |-> code]

\* FirstError with the last error winning
FirstError_Last(errs) ==
    IF \E k \in 1..Len(errs) : errs[k] # NoError
    THEN errs[CHOOSE k \in 1..Len(errs) :
                 errs[k] # NoError /\ \A j \in (k + 1)..Len(errs) : errs[j] = NoError]
    ELSE NoError

\* lines 264 and 406: a chain of ||
FirstError(errs) ==
    IF \E k \in 1..Len(errs) : errs[k] # NoError
    THEN errs[CHOOSE k \in 1..Len(errs) :
                 errs[k] # NoError /\ \A j \in 1..(k - 1) : errs[j] = NoError]
    ELSE NoError

\* the deferred call with await put before it: the procedure goes on after it settled
DeferredDispatch_Awaited == "settled"

\* lines 262 and 404: the deferred actions are called and their promise is dropped
DeferredDispatch == "pending"

\* ---------------------------------------------------------------- appEntry
AppEntryFetch ==
    /\ pc \in {"idle", "done", "thrown"}
    /\ passNo < MaxPasses
    /\ passNo' = passNo + 1
    /\ currentTeamId' = sysCurrentTeamId
    /\ fetchedData' = fetchAppEntryData(sysCurrentTeamId)
    /\ pc' = IF fetchedData'.thrown THEN "thrown" ELSE "fetched"
    /\ removeTeams' = {}
    /\ result' = [returned |-> FALSE, error |-> NoError]
    /\ preStore' = Store
    /\ quietStart' = (ptrPending = {})
    /\ deferred' = "none"
    /\ UNCHANGED <<envVars, storeVars, ptrPending, rolesPending, sw, rl, lg, hr>>

\* lines 238-244: the pointer write is issued and not awaited
PointerWrite ==
    [pass |-> passNo, teamId |-> fetchedData.initialTeamId,
     channelId |-> selectDefaultChannelForTeam(fetchedData.chData.channels)]

AppEntrySetPointer ==
    /\ pc = "fetched"
    /\ IF fetchedData.initialTeamId # currentTeamId
       THEN IF meOk
            THEN /\ ptrPending' = ptrPending \cup {PointerWrite}
                 /\ pc' = "pointer"
            ELSE /\ pc' = "thrown"
                 /\ UNCHANGED ptrPending
       ELSE /\ pc' = "pointer"
            /\ UNCHANGED ptrPending
    /\ UNCHANGED <<envVars, storeVars, passNo, currentTeamId, fetchedData, removeTeams,
                   rolesPending, result, preStore, quietStart, deferred, sw, rl, lg, hr>>

\* the store applies one pending pointer write
setCurrentTeamAndChannelId ==
    /\ \E w \in ptrPending :
         /\ sysCurrentTeamId' = w.teamId
         /\ sysCurrentChannelId' = w.channelId
         /\ ptrPending' = ptrPending \ {w}
    /\ UNCHANGED <<envVars, sysConfig, dbMyTeams, dbTeams, dbChannels, dbRoles, pc, passNo,
                   currentTeamId, fetchedData, removeTeams, rolesPending, result, preStore,
                   quietStart, deferred, sw, rl, lg, hr>>

queryTeamsById(removeTeamIds) == Range(removeTeamIds) \cap dbTeams

AppEntryDeleteMyTeams ==
    /\ pc = "pointer"
    /\ removeTeams' = queryTeamsById(fetchedData.removeTeamIds)
    /\ dbMyTeams' = dbMyTeams \ removeTeams'
    /\ pc' = "deleted"
    /\ UNCHANGED <<envVars, sysConfig, sysCurrentTeamId, sysCurrentChannelId, dbTeams, dbChannels,
                   dbRoles, passNo, currentTeamId, fetchedData, ptrPending, rolesPending,
                   result, preStore, quietStart, deferred, sw, rl, lg, hr>>

\* UpsertTeamIds with the team upsert left out of the batch
UpsertTeamIds_None == {}

\* ids of the teams prepareMyTeams upserts
UpsertTeamIds == IF teamData.error THEN {} ELSE teamData.teams

\* channels prepareMyChannelsForTeam upserts, as <<team stored under, channel>>
UpsertChannels ==
    IF fetchedData.initialTeamId # NoTeam /\ fetchedData.chData.channels # {}
    THEN {<<fetchedData.initialTeamId, c>> : c \in fetchedData.chData.channels}
    ELSE {}

AppEntryBatchRecords ==
    /\ pc = "roles"
    /\ dbTeams' = (dbTeams \ removeTeams) \cup UpsertTeamIds
    /\ dbMyTeams' = (dbMyTeams \ removeTeams) \cup UpsertTeamIds
    /\ dbChannels' = {p \in dbChannels : p[1] \notin removeTeams} \cup UpsertChannels
    /\ pc' = "batched"
    /\ UNCHANGED <<envVars, sysConfig, sysCurrentTeamId, sysCurrentChannelId, dbRoles, passNo,
                   currentTeamId, fetchedData, removeTeams, ptrPending, rolesPending,
                   result, preStore, quietStart, deferred, sw, rl, lg, hr>>

\* the error fields of the four fetches of appEntry, in the order of line 264
AppEntryErrors ==
    <<Err("team", IF teamData.error THEN 500 ELSE 0),
      Err("channel", fetchedData.chData.error),
      Err("preference", IF prefState = "fetched" THEN 0 ELSE 500),
      Err("user", IF meOk THEN 0 ELSE 500)>>

\* lines 260-265: dispatch of the deferred actions, then the return
AppEntryReturn ==
    /\ pc = "batched"
    /\ deferred' = DeferredDispatch
    /\ result' = [returned |-> TRUE, error |-> FirstError(AppEntryErrors)]
    /\ pc' = "done"
    /\ UNCHANGED <<envVars, storeVars, passNo, currentTeamId, fetchedData, removeTeams,
                   ptrPending, rolesPending, preStore, quietStart, sw, rl, lg, hr>>

\* the deferred fetches settle on their own, each outcome possible; what they
\* store (posts, profiles, channels of other teams) is outside the modelled tables
DeferredSettle ==
    /\ deferred = "pending"
    /\ deferred' \in {"settled", "failed"}
    /\ UNCHANGED <<envVars, storeVars, pc, passNo, currentTeamId, fetchedData, removeTeams,
                   ptrPending, rolesPending, result, preStore, quietStart, sw, rl, lg, hr>>

\* ------------------------------------------------------ fetchRolesIfNeeded
\* MissingRoles without the filter: every candidate is requested
MissingRoles_All(updatedRoles, roleNames) == updatedRoles

\* lines 35-37: the names of updatedRoles that queryRoles does not know
MissingRoles(updatedRoles, roleNames) ==
    SelectSeq(updatedRoles, LAMBDA newRole : newRole \notin roleNames)

\* the server answers with the roles it has among the requested names
getRolesByNames(newRoles, srvRoles) ==
    SelectSeq(newRoles, LAMBDA name : name \in srvRoles)

\* lines 46-51: handleRole persists a non-empty answer
HandleRole(known, roles) == IF Len(roles) > 0 THEN known \cup Range(roles) ELSE known

NoReturn == [kind |-> "none", roles |-> <<>>]

rlUnchanged == <<envVars, sysCurrentTeamId, sysCurrentChannelId, sysConfig, dbMyTeams,
                 dbTeams, dbChannels, appVars, sw, lg, hr>>

\* lines 15-41
RolesBegin ==
    /\ rl.pc = "begin"
    /\ IF Len(rl.updatedRoles) = 0
       THEN rl' = [rl EXCEPT !.pc = "returned", !.ret = [kind |-> "roles", roles |-> <<>>]]
       ELSE IF ~rl.clientOk
       THEN rl' = [rl EXCEPT !.pc = "returned", !.ret = [kind |-> "error", roles |-> <<>>]]
       ELSE LET newRoles == MissingRoles(rl.updatedRoles, dbRoles)
            IN IF Len(newRoles) = 0
               THEN rl' = [rl EXCEPT !.pc = "returned",
                                     !.ret = [kind |-> "roles", roles |-> <<>>]]
               ELSE rl' = [rl EXCEPT !.pc = "request", !.newRoles = newRoles]
    /\ UNCHANGED <<rlUnchanged, dbRoles>>

\* lines 43-44 and the catch of lines 54-57
RolesRequest ==
    /\ rl.pc = "request"
    /\ IF rl.netOk
       THEN rl' = [rl EXCEPT !.pc = "persist", !.calls = Append(@, rl.newRoles),
                             !.roles = getRolesByNames(rl.newRoles, rl.srvRoles)]
       ELSE rl' = [rl EXCEPT !.pc = "returned", !.calls = Append(@, rl.newRoles),
                             !.ret = [kind |-> "error", roles |-> <<>>]]
    /\ UNCHANGED <<rlUnchanged, dbRoles>>

\* lines 46-53
RolesPersist ==
    /\ rl.pc = "persist"
    /\ dbRoles' = HandleRole(dbRoles, rl.roles)
    /\ rl' = [rl EXCEPT !.pc = "returned", !.ret = [kind |-> "roles", roles |-> rl.roles]]
    /\ UNCHANGED rlUnchanged

\* ------------------------------------------------------------ handleRoles
\* A roles string is the sequence of its role names with " " between them.
\* String.split(' '): the pieces between the separators, '' for an empty piece
RECURSIVE Split(_)
Split(roles) ==
    IF \E k \in 1..Len(roles) : roles[k] = " "
    THEN LET k == CHOOSE i \in 1..Len(roles) :
                     roles[i] = " " /\ \A j \in 1..(i - 1) : roles[j] # " "
         IN <<IF k = 1 THEN "" ELSE roles[1]>> \o Split(SubSeq(roles, k + 1, Len(roles)))
    ELSE <<IF roles = <<>> THEN "" ELSE roles[1]>>

\* Set.add for each name in turn: a name already in the set is not added again
RECURSIVE AddAll(_, _)
AddAll(rolesToFetch, names) ==
    IF names = <<>> THEN rolesToFetch
    ELSE AddAll(IF Head(names) \in Range(rolesToFetch) THEN rolesToFetch
                ELSE Append(rolesToFetch, Head(names)),
                Tail(names))

\* lines 155-158 and 343-346: the split roles of every membership row, in row order
RECURSIVE MemberRoles(_)
MemberRoles(memberships) ==
    IF memberships = <<>> THEN <<>>
    ELSE Split(Head(memberships).roles) \o MemberRoles(Tail(memberships))

\* ChannelRows without the channelIds.has test of lines 168 and 361
ChannelRows_All(channels, memberships) == memberships

\* lines 165-171 and 358-364: the membership rows whose channel is in the fetched set
ChannelRows(channels, memberships) ==
    SelectSeq(memberships, LAMBDA member : member.channel_id \in channels)

\* lines 163-172 and 356-364
AddChannelRoles(rolesToFetch, channels, memberships) ==
    IF channels # {} /\ Len(memberships) > 0
    THEN AddAll(rolesToFetch, MemberRoles(ChannelRows(channels, memberships)))
    ELSE rolesToFetch

\* lines 148-174: the list handleRoles hands to fetchRolesIfNeeded
handleRoles(teamError, teamMemberships, channels, chMemberships, user) ==
    LET ofUser == AddAll(<<>>, IF user.defined THEN Split(user.roles) ELSE <<>>)
        ofTeams == IF ~teamError THEN AddAll(ofUser, MemberRoles(teamMemberships))
                   ELSE ofUser
    IN AddChannelRoles(ofTeams, channels, chMemberships)

\* lines 352-364: the list loginEntry collects for an initial team
LoginRolesToFetch(teamMemberships, channels, chMemberships, user) ==
    AddChannelRoles(AddAll(<<>>, Split(user.roles) \o MemberRoles(teamMemberships)),
                    channels, chMemberships)

\* the rows of the entry procedures: the user is a member, every team membership
\* row carries admin, every channel membership row carries guest
MeUser(ok) == [defined |-> ok, roles |-> <<"member">>]
TeamMemberships(teams) ==
    [k \in 1..Cardinality(teams) |-> [team_id |-> SortedSeq(teams)[k], roles |-> <<"admin">>]]
ChannelMemberships(channels) ==
    [k \in 1..Cardinality(channels) |->
        [channel_id |-> SortedSeq(channels)[k], roles |-> <<"guest">>]]

RolesToFetch(chData) ==
    handleRoles(teamData.error, TeamMemberships(teamData.teams), chData.channels,
                ChannelMemberships(chData.channels), MeUser(meOk))

\* line 252: handleRoles is not awaited; it ends in fetchRolesIfNeeded
AppEntryHandleRoles ==
    /\ pc = "deleted"
    /\ rolesPending' = rolesPending \cup {RolesToFetch(fetchedData.chData)}
    /\ pc' = "roles"
    /\ UNCHANGED <<envVars, storeVars, passNo, currentTeamId, fetchedData, removeTeams,
                   ptrPending, result, preStore, quietStart, deferred, sw, rl, lg, hr>>

\* a role fetch dispatched by handleRoles runs to its end
fetchRolesIfNeeded ==
    /\ \E updatedRoles \in rolesPending :
         /\ rolesPending' = rolesPending \ {updatedRoles}
         /\ dbRoles' = HandleRole(dbRoles,
                           getRolesByNames(MissingRoles(updatedRoles, dbRoles), RoleNames))
    /\ UNCHANGED <<envVars, sysConfig, sysCurrentTeamId, sysCurrentChannelId, dbMyTeams, dbTeams,
                   dbChannels, pc, passNo, currentTeamId, fetchedData, removeTeams,
                   ptrPending, result, preStore, quietStart, deferred, sw, rl, lg, hr>>

\* ------------------------------------------------- switchTeams, stepwise
swUnchanged == <<envVars, storeVars, appVars, rl, lg, hr>>

\* lines 130-139, one candidate
SwitchIterate ==
    /\ sw.pc = "loop"
    /\ SwitchRunning(sw)
    /\ sw' = SwitchStep(sw)
    /\ UNCHANGED swUnchanged

\* lines 141-145
SwitchReturn ==
    /\ sw.pc = "loop"
    /\ ~SwitchRunning(sw)
    /\ sw' = [sw EXCEPT !.pc = "returned"]
    /\ UNCHANGED swUnchanged

\* ------------------------------------------------------------------- Init
NoSwitch == SwitchStart(<<>>, <<>>) @@ [pc |-> "off", seed |-> <<>>]
NoRoles == [pc |-> "off"]
NoLogin == [pc |-> "off"]
NoHandleRoles == [pc |-> "off"]

\* the config and license rows: what an earlier session stored, the empty objects
\* of lines 380-381 and 410-411, what fetchConfigAndLicense returned
StoredConfig == [config |-> "stored", license |-> "stored"]
EmptyConfig == [config |-> "empty", license |-> "empty"]
FetchedConfig == [config |-> "fetched", license |-> "fetched"]

\* -------------------------------------------------------------- loginEntry
lgUnchanged == <<envVars, pc, passNo, currentTeamId, fetchedData, removeTeams, ptrPending,
                 rolesPending, result, preStore, quietStart, sw, rl, hr>>

NoMyTeams == [defined |-> FALSE, teams |-> {}]
NoLoginReturn == [kind |-> "none", error |-> NoError, hasTeams |-> FALSE]

\* an exception as the value a catch block receives, named by the step that raised it
Exception(at) == [of |-> at, code |-> 1]

\* lines 297-315: client resolution; a failed attachDevice is swallowed
LoginStart ==
    /\ lg.pc = "start"
    /\ IF lg.clientOk
       THEN lg' = [lg EXCEPT !.pc = "fetch"]
       ELSE lg' = [lg EXCEPT !.pc = "returned",
                             !.ret = [kind |-> "client", error |-> Exception("client"),
                                      hasTeams |-> FALSE]]
    /\ UNCHANGED <<lgUnchanged, storeVars, deferred>>

\* lines 323-335: config and license, preferences and teams are fetched together
LoginFetch ==
    /\ lg.pc = "fetch"
    /\ lg' = [lg EXCEPT !.pc = "select"]
    /\ UNCHANGED <<lgUnchanged, storeVars, deferred>>

\* line 348: the fetched teams the user has a membership row for
MyTeams == teamData.teams \cap lg.members

\* lines 338-351
LoginSelectTeam ==
    /\ lg.pc = "select"
    /\ IF ~lg.clError /\ prefState = "fetched" /\ ~teamData.error
       THEN LET initialTeam == selectDefaultTeam(MyTeams)
            IN lg' = [lg EXCEPT !.myTeams = [defined |-> TRUE, teams |-> MyTeams],
                                !.initialTeam = initialTeam,
                                !.pc = IF initialTeam # NoTeam THEN "channels" ELSE "prepare"]
       ELSE lg' = [lg EXCEPT !.pc = "prepare"]
    /\ UNCHANGED <<lgUnchanged, storeVars, deferred>>

\* lines 352-371: channel fetch for the initial team, then, when it brought channels
\* and memberships, the awaited role fetch and the choice of the initial channel
LoginFetchChannels ==
    /\ lg.pc = "channels"
    /\ LET chData == fetchMyChannelsForTeam(lg.initialTeam)
           memberships == ChannelMemberships(chData.channels)
           rolesToFetch == LoginRolesToFetch(TeamMemberships(lg.members), chData.channels,
                                             memberships, MeUser(TRUE))
       IN IF chData.channels # {} /\ Len(memberships) > 0
          THEN /\ dbRoles' = HandleRole(dbRoles,
                                 getRolesByNames(MissingRoles(rolesToFetch, dbRoles), RoleNames))
               /\ lg' = [lg EXCEPT !.pc = "prepare", !.chData = chData,
                                   !.handed = Append(@, rolesToFetch),
                                   !.initialChannel =
                                       selectDefaultChannelForTeam(chData.channels)]
          ELSE /\ lg' = [lg EXCEPT !.pc = "prepare", !.chData = chData]
               /\ UNCHANGED dbRoles
    /\ UNCHANGED <<lgUnchanged, sysCurrentTeamId, sysCurrentChannelId, sysConfig, dbMyTeams,
                   dbTeams, dbChannels, deferred>>

\* lines 375-397: the models are prepared, nothing is written yet
LoginPrepare ==
    /\ lg.pc = "prepare"
    /\ lg' = [lg EXCEPT !.pc = "commit"]
    /\ UNCHANGED <<lgUnchanged, storeVars, deferred>>

\* lines 377-385: the system values that go into the batch
LoginSystemValues ==
    [config |-> IF lg.clError THEN EmptyConfig ELSE FetchedConfig,
     currentTeamId |-> lg.initialTeam,
     currentChannelId |-> lg.initialChannel]

\* CatchSystemValues with the team selected in the try block kept
CatchSystemValues_KeepTeam ==
    [config |-> EmptyConfig, currentTeamId |-> lg.initialTeam, currentChannelId |-> NoTeam]

\* lines 409-414: the system values the catch block writes
CatchSystemValues ==
    [config |-> EmptyConfig, currentTeamId |-> NoTeam, currentChannelId |-> NoTeam]

\* lines 399-402: one batch with teams, channels and system values
LoginBatchRecords ==
    /\ lg.pc = "commit"
    /\ sysConfig' = LoginSystemValues.config
    /\ sysCurrentTeamId' = LoginSystemValues.currentTeamId
    /\ sysCurrentChannelId' = LoginSystemValues.currentChannelId
    /\ dbTeams' = dbTeams \cup UpsertTeamIds
    /\ dbMyTeams' = dbMyTeams \cup UpsertTeamIds
    /\ dbChannels' = dbChannels \cup
                        (IF lg.initialTeam # NoTeam
                         THEN {<<lg.initialTeam, c>> : c \in lg.chData.channels}
                         ELSE {})
    /\ lg' = [lg EXCEPT !.pc = "committed"]
    /\ UNCHANGED <<lgUnchanged, dbRoles, deferred>>

\* the error fields of the four fetches of loginEntry, in the order of line 406
LoginErrors ==
    <<Err("config", IF lg.clError THEN 500 ELSE 0),
      Err("preference", IF prefState = "fetched" THEN 0 ELSE 500),
      Err("team", IF teamData.error THEN 500 ELSE 0),
      Err("channel", lg.chData.error)>>

\* line 407
HasTeams == (lg.myTeams.defined /\ lg.myTeams.teams # {}) /\ ~teamData.error

\* lines 404-407: dispatch of the deferred actions, then the return
LoginReturn ==
    /\ lg.pc = "committed"
    /\ deferred' = DeferredDispatch
    /\ lg' = [lg EXCEPT !.pc = "returned",
                        !.ret = [kind |-> "return", error |-> FirstError(LoginErrors),
                                 hasTeams |-> HasTeams]]
    /\ UNCHANGED <<lgUnchanged, storeVars>>

\* an unexpected exception raised inside the try block of lines 317-407: the step
\* that was about to run does not take place
LoginThrow ==
    /\ lg.pc \in {"fetch", "select", "channels", "prepare", "commit"}
    /\ lg' = [lg EXCEPT !.pc = "catch", !.thrownAt = lg.pc]
    /\ UNCHANGED <<lgUnchanged, storeVars, deferred>>

\* lines 408-420
LoginCatch ==
    /\ lg.pc = "catch"
    /\ sysConfig' = CatchSystemValues.config
    /\ sysCurrentTeamId' = CatchSystemValues.currentTeamId
    /\ sysCurrentChannelId' = CatchSystemValues.currentChannelId
    /\ lg' = [lg EXCEPT !.pc = "returned",
                        !.ret = [kind |-> "catch", error |-> Exception(lg.thrownAt),
                                 hasTeams |-> FALSE]]
    /\ UNCHANGED <<lgUnchanged, dbMyTeams, dbTeams, dbChannels, dbRoles, deferred>>

EnvInit ==
    /\ teamData \in {[error |-> TRUE, teams |-> {}]}
                    \cup {[error |-> FALSE, teams |-> T] : T \in SUBSET Teams}
    /\ chanStatus \in {f \in [TeamIds -> ChannelErrors] : f[NoTeam] = 500}
    /\ defaultPick \in IF teamData.teams = {} THEN {NoTeam} ELSE teamData.teams
    /\ prefState \in {"fetched", "cached", "none"}
    /\ meOk \in BOOLEAN

StoreInit ==
    /\ dbTeams \in SUBSET Teams
    /\ dbMyTeams = dbTeams
    /\ dbChannels = {<<t, t>> : t \in dbTeams}
    /\ sysCurrentTeamId \in dbTeams \cup {NoTeam}
    /\ sysCurrentChannelId = sysCurrentTeamId
    /\ sysConfig = StoredConfig
    /\ dbRoles = {}

AppInit ==
    /\ pc = "idle"
    /\ passNo = 0
    /\ currentTeamId = NoTeam
    /\ fetchedData = NoFetchedData
    /\ removeTeams = {}
    /\ ptrPending = {}
    /\ rolesPending = {}
    /\ result = [returned |-> FALSE, error |-> NoError]
    /\ preStore = Store
    /\ quietStart = TRUE
    /\ deferred = "none"

Init ==
    /\ EnvInit
    /\ StoreInit
    /\ AppInit
    /\ sw = NoSwitch
    /\ rl = NoRoles
    /\ lg = NoLogin
    /\ hr = NoHandleRoles

Next ==
    \/ AppEntryFetch
    \/ AppEntrySetPointer
    \/ setCurrentTeamAndChannelId
    \/ AppEntryDeleteMyTeams
    \/ AppEntryHandleRoles
    \/ fetchRolesIfNeeded
    \/ AppEntryBatchRecords
    \/ AppEntryReturn
    \/ DeferredSettle

Spec == Init /\ [][Next]_vars

\* --------------------------------------------- switchTeams on its own
FixedEnv ==
    /\ teamData = [error |-> TRUE, teams |-> {}]
    /\ defaultPick = NoTeam
    /\ prefState = "fetched"
    /\ meOk = TRUE

EmptyStore ==
    /\ dbTeams = {}
    /\ dbMyTeams = {}
    /\ dbChannels = {}
    /\ sysCurrentTeamId = NoTeam
    /\ sysCurrentChannelId = NoTeam
    /\ sysConfig = StoredConfig

CandidateIds == 1..MaxCandidates

InitSwitch ==
    /\ FixedEnv
    /\ chanStatus \in {f \in [CandidateIds \cup {NoTeam} -> ChannelErrors] : f[NoTeam] = 500}
    /\ EmptyStore
    /\ dbRoles = {}
    /\ AppInit
    /\ \E avail \in DistinctSeqs(CandidateIds) :
         \E seed \in {<<>>} \cup {<<p>> : p \in (CandidateIds \cup {NoTeam}) \ Range(avail)} :
            sw = SwitchStart(avail, seed) @@ [pc |-> "loop", seed |-> seed]
    /\ rl = NoRoles
    /\ lg = NoLogin
    /\ hr = NoHandleRoles

NextSwitch == SwitchIterate \/ SwitchReturn

SpecSwitch == InitSwitch /\ [][NextSwitch]_vars

\* ------------------------------------------------- loginEntry on its own
\* appEntry is not running
AppOff ==
    /\ pc = "off"
    /\ passNo = 0
    /\ currentTeamId = NoTeam
    /\ fetchedData = NoFetchedData
    /\ removeTeams = {}
    /\ ptrPending = {}
    /\ rolesPending = {}
    /\ result = [returned |-> FALSE, error |-> NoError]
    /\ preStore = Store
    /\ quietStart = TRUE
    /\ deferred = "none"

\* the store a login starts from: system values of an earlier session may be there
InitLogin ==
    /\ teamData \in {[error |-> TRUE, teams |-> {}]}
                    \cup {[error |-> FALSE, teams |-> T] : T \in SUBSET Teams}
    /\ prefState \in {"fetched", "none"}
    /\ meOk = TRUE
    /\ dbTeams = {} /\ dbMyTeams = {} /\ dbChannels = {} /\ dbRoles = {}
    /\ sysCurrentTeamId \in {NoTeam, 1}
    /\ sysCurrentChannelId = sysCurrentTeamId
    /\ sysConfig = StoredConfig
    /\ AppOff
    /\ sw = NoSwitch
    /\ rl = NoRoles
    /\ hr = NoHandleRoles
    /\ \E members \in SUBSET Teams, clientOk \in BOOLEAN, clError \in BOOLEAN,
          status \in ChannelErrors :
         /\ defaultPick \in IF teamData.teams \cap members = {} THEN {NoTeam}
                             ELSE teamData.teams \cap members
         /\ chanStatus = [t \in TeamIds |-> IF t = defaultPick /\ t # NoTeam THEN status
                                             ELSE 500]
         /\ lg = [pc |-> "start", clientOk |-> clientOk, clError |-> clError,
                  members |-> members, myTeams |-> NoMyTeams, initialTeam |-> NoTeam,
                  initialChannel |-> NoTeam, chData |-> NoChData, handed |-> <<>>,
                  thrownAt |-> "none", ret |-> NoLoginReturn]

NextLogin ==
    \/ LoginStart
    \/ LoginFetch
    \/ LoginSelectTeam
    \/ LoginFetchChannels
    \/ LoginPrepare
    \/ LoginBatchRecords
    \/ LoginReturn
    \/ LoginThrow
    \/ LoginCatch
    \/ DeferredSettle

SpecLogin == InitLogin /\ [][NextLogin]_vars

\* ------------------------------------------ the role collection on its own
hrUnchanged == <<envVars, storeVars, appVars, sw, rl, lg>>

\* line 174: handleRoles hands its list to fetchRolesIfNeeded
HandleRolesCall ==
    /\ hr.pc = "begin" /\ hr.mode = "appEntry"
    /\ hr' = [hr EXCEPT !.pc = "handed",
                        !.handed = Append(@, handleRoles(hr.teamError, hr.teamMemberships,
                                                         hr.channels, hr.chMemberships,
                                                         hr.user))]
    /\ UNCHANGED hrUnchanged

\* lines 352-367: loginEntry hands its list over when the channel fetch brought
\* channels and memberships
LoginCollectRoles ==
    /\ hr.pc = "begin" /\ hr.mode = "loginEntry"
    /\ IF hr.channels # {} /\ Len(hr.chMemberships) > 0
       THEN hr' = [hr EXCEPT !.pc = "handed",
                             !.handed = Append(@, LoginRolesToFetch(hr.teamMemberships,
                                                       hr.channels, hr.chMemberships,
                                                       hr.user))]
       ELSE hr' = [hr EXCEPT !.pc = "done"]
    /\ UNCHANGED hrUnchanged

\* role.ts lines 29-44: the names of the list that go to the server
HandedRolesRequest ==
    /\ hr.pc = "handed"
    /\ hr' = [hr EXCEPT !.pc = "done",
                        !.requested = MissingRoles(hr.handed[Len(hr.handed)], dbRoles)]
    /\ UNCHANGED hrUnchanged

\* roles strings of one or two names
RoleStrings == {<<"admin">>, <<"member">>, <<"guest">>, <<"admin", " ", "member">>}
HrChannelIds == {1, 2}
TeamRows == {[team_id |-> t, roles |-> r] : t \in {1}, r \in RoleStrings}
ChannelRowSet == {[channel_id |-> c, roles |-> r] : c \in HrChannelIds, r \in RoleStrings}
SeqsUpTo(S, n) == UNION {[1..k -> S] : k \in 0..n}

\* a failed team fetch carries no membership rows; loginEntry collects roles only
\* after a team fetch without error, for the user it was given
InitHandleRoles ==
    /\ FixedEnv
    /\ chanStatus = [t \in TeamIds |-> 500]
    /\ EmptyStore
    /\ dbRoles \in {{}, {"admin"}}
    /\ AppOff
    /\ sw = NoSwitch
    /\ rl = NoRoles
    /\ lg = NoLogin
    /\ \E mode \in {"appEntry", "loginEntry"}, teamError \in BOOLEAN,
          user \in {[defined |-> FALSE, roles |-> <<>>]}
                      \cup {[defined |-> TRUE, roles |-> r] : r \in RoleStrings},
          teamMemberships \in SeqsUpTo(TeamRows, MaxTeamRows),
          channels \in SUBSET HrChannelIds,
          chMemberships \in SeqsUpTo(ChannelRowSet, MaxChannelRows) :
         /\ teamError => teamMemberships = <<>>
         /\ mode = "loginEntry" => (~teamError /\ user.defined)
         /\ hr = [pc |-> "begin", mode |-> mode, teamError |-> teamError, user |-> user,
                  teamMemberships |-> teamMemberships, channels |-> channels,
                  chMemberships |-> chMemberships, handed |-> <<>>, requested |-> <<>>]

NextHandleRoles == HandleRolesCall \/ LoginCollectRoles \/ HandedRolesRequest

SpecHandleRoles == InitHandleRoles /\ [][NextHandleRoles]_vars

\* ----------------------------- the two entry procedures, one per behaviour
InitEntry == Init \/ InitLogin

NextEntry == Next \/ NextLogin

SpecEntry == InitEntry /\ [][NextEntry]_vars

\* --------------------------------------- fetchRolesIfNeeded on its own
RoleLists == UNION {[1..n -> RoleNames] : n \in 0..MaxRoleList}

InitRoles ==
    /\ FixedEnv
    /\ chanStatus = [t \in TeamIds |-> 500]
    /\ EmptyStore
    /\ dbRoles \in SUBSET RoleNames
    /\ AppInit
    /\ sw = NoSwitch
    /\ \E updatedRoles \in RoleLists, srvRoles \in SUBSET RoleNames,
          clientOk \in BOOLEAN, netOk \in BOOLEAN :
         rl = [pc |-> "begin", updatedRoles |-> updatedRoles, clientOk |-> clientOk,
               netOk |-> netOk, srvRoles |-> srvRoles, newRoles |-> <<>>,
               calls |-> <<>>, roles |-> <<>>, ret |-> NoReturn, known |-> dbRoles]
    /\ lg = NoLogin
    /\ hr = NoHandleRoles

NextRoles == RolesBegin \/ RolesRequest \/ RolesPersist

SpecRoles == InitRoles /\ [][NextRoles]_vars

\* ================================================================= claims
InPass == passNo > 0
Returned == InPass /\ ~fetchedData.thrown

\* the team fetch succeeded and lists the team, and its channel fetch is not forbidden
Accessible(t) == InTeam(t) /\ chanStatus[t] # Forbidden

\* C1: when the team fetch returns zero teams, fetchAppEntryData returns with every
\* locally cached team id in removeTeamIds and an empty initialTeamId, and the only
\* channel fetch made is the one for the prior team (switchTeams is not invoked).
C1_ZeroTeams ==
    (InPass /\ ~teamData.error /\ teamData.teams = {}) =>
        /\ ~fetchedData.thrown
        /\ preStore.myTeams \subseteq Range(fetchedData.removeTeamIds)
        /\ fetchedData.initialTeamId = NoTeam
        /\ ~fetchedData.switched
        /\ fetchedData.log = <<currentTeamId>>

C1_Witness ==
    /\ pc = "fetched"
    /\ ~teamData.error /\ teamData.teams = {}
    /\ preStore.myTeams = Teams
    /\ currentTeamId # NoTeam

\* C2: a prior current team missing from a successful, non-empty team fetch ends up in
\* the returned removeTeamIds, and switchTeams is invoked over the ids of
\* getAvailableTeamIds with the removal set seeded with the prior team.
C2_PriorNotInFetch ==
    (InPass /\ ~teamData.error /\ teamData.teams # {} /\ currentTeamId \in Teams
        /\ currentTeamId \notin teamData.teams) =>
        /\ ~fetchedData.thrown
        /\ currentTeamId \in Range(fetchedData.removeTeamIds)
        /\ fetchedData.switched
        /\ fetchedData.seed = <<currentTeamId>>

\* C3: after an appEntry pass whose pointer write has been applied, if the fetched
\* team list holds an accessible team, the current team is an accessible team.
C3_CurrentTeamAccessible ==
    (pc = "done" /\ ptrPending = {} /\ quietStart /\ currentTeamId \in Teams
        /\ \E t \in Teams : Accessible(t)) =>
        Accessible(sysCurrentTeamId)

\* C4: no team id is both in removeTeamIds and among the teams upserted from the
\* fresh team data of the same pass.
C4_RemoveUpsertDisjoint ==
    Returned => Range(fetchedData.removeTeamIds) \cap UpsertTeamIds = {}

\* the batch of lines 254-258 holds at least one model
BatchIssued ==
    \/ removeTeams # {}
    \/ ~teamData.error
    \/ UpsertChannels # {}
    \/ prefState = "fetched"
    \/ meOk

\* C5: once deleteMyTeams or batchRecords has begun, the pointer write issued by
\* the same pass has been applied.
C5_PointerBeforeWrites ==
    (\/ pc \in {"deleted", "roles", "batched", "done"} /\ removeTeams # {}
     \/ pc \in {"batched", "done"} /\ BatchIssued) =>
        ~\E w \in ptrPending : w.pass = passNo
\* every write of the running pass has been applied
PassWritesApplied == pc \in {"batched", "done"} /\ ptrPending = {}

\* C6 as stated: during a pass a reader sees the store as it was before the pass or
\* as it is after all of the pass's writes, never a state in between.
C6_AtomicCommit ==
    (InPass /\ quietStart) => (Store = preStore \/ PassWritesApplied)

\* C6 as amended: the store changes only by one of three separate writes, each
\* applied whole: the pointer write (team and channel together), the deletion of
\* the removed teams' membership rows, and the batch (team deletions, team upserts
\* and channel upserts together).
C6_StagedWrites ==
    [][Store' # Store =>
        \/ \E w \in ptrPending :
             Store' = [Store EXCEPT !.team = w.teamId, !.channel = w.channelId]
        \/ /\ pc = "pointer"
           /\ Store' = [Store EXCEPT
                          !.myTeams = @ \ (Range(fetchedData.removeTeamIds) \cap dbTeams)]
        \/ /\ pc = "roles"
           /\ LET fresh == IF teamData.error THEN {} ELSE teamData.teams
                  chans == IF fetchedData.initialTeamId # NoTeam
                           THEN {<<fetchedData.initialTeamId, c>> :
                                    c \in fetchedData.chData.channels}
                           ELSE {}
              IN Store' = [Store EXCEPT
                             !.teams = (@ \ removeTeams) \cup fresh,
                             !.myTeams = (@ \ removeTeams) \cup fresh,
                             !.channels = {q \in @ : q[1] \notin removeTeams} \cup chans]
    ]_vars

\* the new pointer is visible while the batch of the same pass is not yet applied
C6_Witness ==
    /\ InPass /\ quietStart
    /\ pc \in {"pointer", "deleted", "roles"}
    /\ sysCurrentTeamId = fetchedData.initialTeamId
    /\ sysCurrentTeamId # preStore.team
    /\ removeTeams # {}

\* C7: a pointer write names a current channel only if that channel was fetched for
\* the team it names as current team.
C7_ChannelOfCurrentTeam ==
    \A w \in ptrPending : w.channelId # NoTeam => w.channelId = w.teamId

\* C8: a second appEntry against the same server has no team in its removal set and
\* leaves the current-team pointer where the first call left it.
C8_Idempotent ==
    (passNo >= 2 /\ pc = "done" /\ quietStart /\ ptrPending = {}) =>
        /\ Range(fetchedData.removeTeamIds) \cap Teams = {}
        /\ sysCurrentTeamId = currentTeamId
\* index of the first candidate whose channel fetch is not forbidden, 0 if none
FirstAllowed(avail) ==
    IF \E k \in 1..Len(avail) : chanStatus[avail[k]] # Forbidden
    THEN CHOOSE k \in 1..Len(avail) :
            /\ chanStatus[avail[k]] # Forbidden
            /\ \A j \in 1..(k - 1) : chanStatus[avail[j]] = Forbidden
    ELSE 0

\* C9: switchTeams fetches the candidates in list order; every forbidden candidate
\* before the first allowed one is appended to removeTeamIds; the first candidate
\* whose fetch is not forbidden becomes initialTeamId with its fetch result as
\* chData, and no candidate after it is fetched.
C9_SwitchOrder ==
    LET avail == sw.availableTeamIds
        k == FirstAllowed(avail)
    IN /\ sw.pc \in {"loop", "returned"} =>
            /\ Len(sw.log) <= Len(avail)
            /\ sw.log = SubSeq(avail, 1, Len(sw.log))
       /\ (sw.pc = "returned" /\ k > 0) =>
            /\ sw.initialTeamId = avail[k]
            /\ sw.chData.defined /\ sw.chData.teamId = avail[k]
            /\ sw.chData.error = chanStatus[avail[k]]
            /\ sw.log = SubSeq(avail, 1, k)
            /\ sw.removeTeamIds = sw.seed \o SubSeq(avail, 1, k - 1)

\* candidates [A, B, C, D], A and B forbidden, C failing with another error
C9_Witness ==
    /\ sw.pc = "returned"
    /\ Len(sw.availableTeamIds) = 4
    /\ FirstAllowed(sw.availableTeamIds) = 3
    /\ chanStatus[sw.availableTeamIds[3]] = 500
    /\ sw.initialTeamId = sw.availableTeamIds[3]
    /\ Len(sw.log) = 3

\* the names of the candidate list that the store did not know when the call began
RolesOutsideKnown == SelectSeq(rl.updatedRoles, LAMBDA n : n \notin rl.known)

\* C10 as stated: whenever a candidate name is outside the known names, exactly one
\* getRolesByNames call is issued, for exactly the unknown candidate names, and a
\* non-empty answer is persisted.
C10_OneCallForMissing ==
    (rl.pc = "returned" /\ Len(RolesOutsideKnown) > 0) =>
        /\ rl.calls = <<RolesOutsideKnown>>
        /\ Range(rl.roles) \subseteq dbRoles

\* C10 as amended: the same, provided the network client of the server is resolved.
C10_OneCallForMissingWithClient ==
    /\ rl.pc \in {"begin", "request", "persist", "returned"} => Len(rl.calls) <= 1
    /\ (rl.pc = "returned" /\ rl.clientOk /\ Len(RolesOutsideKnown) > 0) =>
            /\ rl.calls = <<RolesOutsideKnown>>
            /\ Range(rl.calls[1]) \cap rl.known = {}
            /\ dbRoles = rl.known \cup
                   (IF rl.netOk THEN Range(RolesOutsideKnown) \cap rl.srvRoles ELSE {})

\* known {admin, member}, candidates <<member, guest>>: only guest is requested
C10_Witness ==
    /\ rl.pc = "returned"
    /\ rl.known = {"admin", "member"}
    /\ rl.updatedRoles = <<"member", "guest">>
    /\ rl.calls = <<(<<"guest">>)>>
    /\ dbRoles = RoleNames

\* C11 as stated: when the candidate list is empty or every candidate name is known
\* locally, fetchRolesIfNeeded issues no network call and returns an empty role
\* list; a network call is made only if a candidate name is missing locally.
C11_NoCallWhenKnown ==
    /\ Len(rl.calls) > 0 => Len(RolesOutsideKnown) > 0
    /\ (rl.pc = "returned" /\ Len(RolesOutsideKnown) = 0) =>
            /\ rl.calls = <<>>
            /\ rl.ret = [kind |-> "roles", roles |-> <<>>]

\* C11 as amended: no call is ever issued unless a candidate name is missing
\* locally; the empty role list is returned for an empty candidate list, and for a
\* list of known names when the network client is resolved; with known names and no
\* client the return is an error.
C11_NoCallWhenKnownWithClient ==
    /\ (rl.pc # "off" /\ Len(rl.calls) > 0) => Len(RolesOutsideKnown) > 0
    /\ (rl.pc = "returned" /\ Len(RolesOutsideKnown) = 0) =>
            /\ rl.calls = <<>>
            /\ dbRoles = rl.known
            /\ rl.ret = IF Len(rl.updatedRoles) = 0 \/ rl.clientOk
                        THEN [kind |-> "roles", roles |-> <<>>]
                        ELSE [kind |-> "error", roles |-> <<>>]

\* candidates <<admin, member>>, both known, client resolved: no call, empty list
C11_Witness ==
    /\ rl.pc = "returned"
    /\ rl.updatedRoles = <<"admin", "member">>
    /\ rl.known = {"admin", "member"}
    /\ rl.clientOk
    /\ rl.calls = <<>>
    /\ rl.ret = [kind |-> "roles", roles |-> <<>>]

\* C12: when an exception is raised in loginEntry after the client has been resolved
\* (during the fetches, the selection, the model preparation or the batch commit),
\* the procedure aborts (no batch of the try block is committed, nothing is
\* dispatched), the store ends with config and license empty and currentTeamId and
\* currentChannelId '', and the returned result carries that exception as its error.
C12_HardFailure ==
    /\ (lg.pc # "off" /\ lg.thrownAt # "none") =>
            /\ lg.pc \in {"catch", "returned"}
            /\ deferred = "none"
            /\ dbTeams = {} /\ dbMyTeams = {} /\ dbChannels = {}
    /\ (lg.pc = "returned" /\ lg.thrownAt # "none") =>
            /\ sysConfig = EmptyConfig
            /\ sysCurrentTeamId = NoTeam
            /\ sysCurrentChannelId = NoTeam
            /\ lg.ret.kind = "catch"
            /\ lg.ret.error = Exception(lg.thrownAt)

\* the batch commit throws after a team and a channel had been selected, over a
\* store that held the current team of an earlier session
C12_Witness ==
    /\ lg.pc = "returned"
    /\ lg.thrownAt = "commit"
    /\ lg.initialTeam # NoTeam /\ lg.initialChannel # NoTeam
    /\ sysCurrentTeamId = NoTeam
    /\ sysConfig = EmptyConfig

\* C13: loginEntry returns hasTeams = true exactly when the user has a membership in
\* a fetched team and the team fetch did not error, whatever the outcomes of the
\* config/license and preference fetches.
C13_HasTeams ==
    (lg.pc = "returned" /\ lg.ret.kind = "return") =>
        (lg.ret.hasTeams <=> (~teamData.error /\ teamData.teams \cap lg.members # {}))

\* C14: the error an entry procedure returns is the first non-null error of its
\* fetches in a fixed order (config, preference, team, channel for loginEntry; team,
\* channel, preference, user for appEntry), the channel result being the one kept in
\* the bundle; it is absent exactly when none of the four results carries an error.
C14_FirstError ==
    /\ result.returned =>
          LET team == teamData.error
              channel == fetchedData.chData.error
              preference == prefState # "fetched"
              e == result.error
          IN /\ (e = NoError) <=> (~team /\ channel = 0 /\ ~preference /\ meOk)
             /\ team => e.of = "team"
             /\ (~team /\ channel # 0) => e = [of |-> "channel", code |-> channel]
             /\ (~team /\ channel = 0 /\ preference) => e.of = "preference"
             /\ (~team /\ channel = 0 /\ ~preference /\ ~meOk) => e.of = "user"
    /\ (lg.pc = "returned" /\ lg.ret.kind = "return") =>
          LET config == lg.clError
              preference == prefState # "fetched"
              team == teamData.error
              channel == lg.chData.error
              e == lg.ret.error
          IN /\ (e = NoError) <=> (~config /\ ~preference /\ ~team /\ channel = 0)
             /\ config => e.of = "config"
             /\ (~config /\ preference) => e.of = "preference"
             /\ (~config /\ ~preference /\ team) => e.of = "team"
             /\ (~config /\ ~preference /\ ~team /\ channel # 0) =>
                    e = [of |-> "channel", code |-> channel]

\* appEntry after a team switch whose winning candidate's channel fetch failed, the
\* preference fetch having failed too: the channel error is the one returned
C14_Witness ==
    /\ result.returned
    /\ fetchedData.switched
    /\ fetchedData.initialTeamId # NoTeam
    /\ fetchedData.chData.error = 500
    /\ prefState = "cached"
    /\ result.error = [of |-> "channel", code |-> 500]

\* C15: appEntry never throws: for every combination of failures of the team,
\* channel, preference and current-user fetches a pass that has begun ends in a
\* returned {error, time} result.
C15_NeverThrows == pc # "thrown"

\* C16: whenever fetchAppEntryData resolves a non-empty initialTeamId, the channel
\* result kept in the bundle does not carry a 403; appEntry returns a forbidden
\* channel-fetch error as its error only in a pass that ends with an empty
\* initialTeamId.
C16_ForbiddenOnlyWithoutTeam ==
    /\ (Returned /\ fetchedData.initialTeamId # NoTeam) =>
            fetchedData.chData.error # Forbidden
    /\ (result.returned /\ result.error = [of |-> "channel", code |-> Forbidden]) =>
            fetchedData.initialTeamId = NoTeam

\* the prior team and the only switch candidate are both forbidden: the pass ends
\* without a team and returns the 403
C16_Witness ==
    /\ result.returned
    /\ currentTeamId # NoTeam
    /\ fetchedData.switched
    /\ Len(fetchedData.log) >= 2
    /\ fetchedData.initialTeamId = NoTeam
    /\ result.error = [of |-> "channel", code |-> Forbidden]

\* C17: when no candidate of switchTeams succeeds (the list is empty or every
\* candidate is forbidden), it returns an empty initialTeamId and no chData, and
\* removeTeamIds holds every forbidden candidate tried.
C17_NoWinner ==
    (sw.pc = "returned" /\ FirstAllowed(sw.availableTeamIds) = 0) =>
        /\ SwitchResult(sw).initialTeamId = NoTeam
        /\ ~SwitchResult(sw).hasChData
        /\ SwitchResult(sw).removeTeamIds = sw.seed \o sw.availableTeamIds

\* C18: when the team fetch fails with an error and the channel fetch for the prior
\* team is not forbidden, fetchAppEntryData returns removeTeamIds empty and
\* initialTeamId equal to the prior team id, and switchTeams is not invoked.
C18_FailureOnlyCarried ==
    (InPass /\ currentTeamId \in Teams /\ teamData.error
        /\ chanStatus[currentTeamId] # Forbidden) =>
        /\ ~fetchedData.thrown
        /\ fetchedData.removeTeamIds = <<>>
        /\ fetchedData.initialTeamId = currentTeamId
        /\ ~fetchedData.switched

\* the batch of the running appEntry pass is in the store
AppBatchCommitted ==
    /\ pc = "done"
    /\ UpsertTeamIds \subseteq dbTeams /\ UpsertTeamIds \subseteq dbMyTeams
    /\ UpsertChannels \subseteq dbChannels
    /\ (removeTeams \ UpsertTeamIds) \cap dbTeams = {}

\* the batch of loginEntry is in the store
LoginBatchCommitted ==
    /\ lg.pc = "returned" /\ lg.ret.kind = "return"
    /\ sysConfig = LoginSystemValues.config
    /\ sysCurrentTeamId = lg.initialTeam /\ sysCurrentChannelId = lg.initialChannel
    /\ UpsertTeamIds \subseteq dbTeams
    /\ (lg.initialTeam # NoTeam =>
            {<<lg.initialTeam, c>> : c \in lg.chData.channels} \subseteq dbChannels)

\* C19: in appEntry and loginEntry the deferred enrichment is dispatched only after
\* the batch of the procedure has been committed; the procedure returns while the
\* deferred fetches are still pending; and when they settle, with either outcome,
\* the returned result is left as it was.
C19_DeferredAfterCommit ==
    /\ [](deferred # "none" =>
            IF lg.pc = "off" THEN AppBatchCommitted ELSE LoginBatchCommitted)
    /\ [][/\ (~result.returned /\ result'.returned) => deferred' = "pending"
          /\ (lg.pc \notin {"off", "returned"} /\ lg'.pc = "returned"
                  /\ lg'.ret.kind = "return") => deferred' = "pending"
          /\ (deferred = "pending" /\ deferred' \in {"settled", "failed"}) =>
                  (result' = result /\ lg' = lg)]_vars

\* appEntry has returned without an error and the deferred fetches have failed
C19_Witness ==
    /\ pc = "done"
    /\ result = [returned |-> TRUE, error |-> NoError]
    /\ UpsertChannels # {}
    /\ deferred = "failed"

\* the role names of a roles string
NamesOf(roles) == {roles[k] : k \in 1..Len(roles)} \ {" "}

\* the names the claim lists: of the user, of the team membership rows, and of the
\* channel membership rows whose channel is in the fetched channel set
RoleUnion ==
    (IF hr.user.defined THEN NamesOf(hr.user.roles) ELSE {})
    \cup UNION {NamesOf(hr.teamMemberships[k].roles) : k \in 1..Len(hr.teamMemberships)}
    \cup UNION {NamesOf(hr.chMemberships[k].roles) :
                   k \in {j \in 1..Len(hr.chMemberships) :
                             hr.chMemberships[j].channel_id \in hr.channels}}

NoDuplicates(list) == Cardinality(Range(list)) = Len(list)

\* C20: the role names handed to fetchRolesIfNeeded in one pass are exactly the
\* union of the user's role names, the role names of the team membership rows of the
\* fetch result and the role names of the channel membership rows whose channel is
\* in the fetched channel set; the list is handed over at most once, each name
\* occurs once in it, and no name is requested from the server twice.
C20_RoleUnion ==
    /\ hr.pc # "off" => Len(hr.handed) <= 1
    /\ (hr.pc \in {"handed", "done"} /\ hr.mode = "appEntry") => Len(hr.handed) = 1
    /\ (hr.pc \in {"handed", "done"} /\ Len(hr.handed) = 1) =>
            /\ Range(hr.handed[1]) = RoleUnion
            /\ NoDuplicates(hr.handed[1])
            /\ NoDuplicates(hr.requested)
            /\ Range(hr.requested) \subseteq RoleUnion \ dbRoles

\* user "admin member", a team row with member, a channel row of a fetched
\* channel with admin and a row of a channel outside the fetched set with guest
C20_Witness ==
    /\ hr.pc = "done"
    /\ hr.user.defined /\ hr.user.roles = <<"admin", " ", "member">>
    /\ Len(hr.teamMemberships) = 1 /\ hr.teamMemberships[1].roles = <<"member">>
    /\ hr.channels = {1}
    /\ hr.chMemberships = <<[channel_id |-> 1, roles |-> <<"admin">>],
                            [channel_id |-> 2, roles |-> <<"guest">>]>>
    /\ hr.handed = <<(<<"admin", "member">>)>>
    /\ dbRoles = {"admin"}
    /\ hr.requested = <<"member">>

\* C21: in loginEntry, when none of the config, preference and team fetches errored
\* and a default team was found, then once the channel fetch of that team is over,
\* whatever its outcome, the role list has been handed to fetchRolesIfNeeded once,
\* and it holds the role names of the user and of the team memberships, and those
\* of the channel memberships of the fetched channels.
C21_RolesResolved ==
    (lg.pc \in {"prepare", "commit", "committed", "returned"} /\ lg.thrownAt = "none"
        /\ lg.initialTeam # NoTeam) =>
        /\ Len(lg.handed) = 1
        /\ Range(lg.handed[1]) =
               NamesOf(MeUser(TRUE).roles)
               \cup UNION {NamesOf(TeamMemberships(lg.members)[k].roles) :
                              k \in 1..Cardinality(lg.members)}
               \cup UNION {NamesOf(ChannelMemberships(lg.chData.channels)[k].roles) :
                              k \in 1..Cardinality(lg.chData.channels)}

\* C22: whenever fetchAppEntryData resolves a non-empty initialTeamId, that id is
\* not in removeTeamIds and the chData of the bundle is the result of the channel
\* fetch made for initialTeamId, so every channel prepareModels upserts under
\* initialTeamId was fetched for that team.
C22_ChDataOfInitialTeam ==
    (Returned /\ fetchedData.initialTeamId # NoTeam) =>
        /\ fetchedData.initialTeamId \notin Range(fetchedData.removeTeamIds)
        /\ fetchedData.chData.defined
        /\ fetchedData.chData.teamId = fetchedData.initialTeamId
        /\ fetchedData.chData = fetchMyChannelsForTeam(fetchedData.initialTeamId)
        /\ \A p \in UpsertChannels : p[1] = fetchedData.initialTeamId /\ p[2] = p[1]

\* the prior team and a forbidden candidate are removed, the next candidate wins
\* and its channels are the ones to upsert
C22_Witness ==
    /\ pc = "fetched"
    /\ fetchedData.switched
    /\ fetchedData.initialTeamId # NoTeam
    /\ Len(fetchedData.removeTeamIds) >= 2
    /\ Len(fetchedData.log) >= 3
    /\ UpsertChannels # {}

====
